---------------------------- MODULE Spec2Model ----------------------------
(***************************************************************************)
(* A model of src-tauri/src/system.rs: the command argument builder, the   *)
(* shell-aware launcher, the path/toolbox locators, the preset discovery   *)
(* and the three open_in_* actions.                                        *)
(*                                                                         *)
(* Strings are TLA+ strings; the string functions of the standard library  *)
(* the code uses (contains, replace, to_ascii_lowercase, Path::extension,  *)
(* Path::join, split_paths, the byte-wise ordering of file names) are      *)
(* computed character by character.  The file system and the environment   *)
(* are state: the set of regular files, the set of directories, the order  *)
(* in which read_dir lists every directory, and the environment variables. *)
(* The outcome of every process spawn (could not start with an OS error    *)
(* code, or ran and exited with a status) is chosen by the environment.    *)
(***************************************************************************)
EXTENDS Integers, Sequences, FiniteSets, TLC

VARIABLES
    platform,   \* the target_os the module is compiled for
    env,        \* environment variables: name -> Option<String>
    files,      \* paths that are regular files
    dirs,       \* paths that are directories
    readdir,    \* directory -> names of its entries, in listing order
    call,       \* the last call made by the host: function and inputs
    spawned,    \* the processes the last call tried to spawn, in order
    ret         \* what the last call returned

vars == <<platform, env, files, dirs, readdir, call, spawned, ret>>

\* ------------------------------------------------------------ bounds

\* Longest argument template the host passes.
MaxArgs == 2

\* Most directories PATH lists.
MaxPathDirs == 2

\* Most entries the directory of the builds of a Toolbox product holds.
MaxBuildDirs == 3

\* ------------------------------------------------------------ Option / Result

None == [is_some |-> FALSE]
Some(v) == [is_some |-> TRUE, value |-> v]

Ok(v) == [is_ok |-> TRUE, value |-> v]
Err(e) == [is_ok |-> FALSE, error |-> e]

\* ------------------------------------------------------------ strings

Char(s, i) == SubSeq(s, i, i)

\* Index of the first occurrence of pat in s at or after i, 0 when none.
RECURSIVE FindFrom(_, _, _)
FindFrom(s, pat, i) ==
    IF i + Len(pat) - 1 > Len(s) THEN 0
    ELSE IF SubSeq(s, i, i + Len(pat) - 1) = pat THEN i
    ELSE FindFrom(s, pat, i + 1)

\* str::contains
Contains(s, pat) == \E i \in 1..(Len(s) - Len(pat) + 1) : SubSeq(s, i, i + Len(pat) - 1) = pat

\* str::replace: every non-overlapping occurrence, left to right; the
\* replacement text is not scanned again.
RECURSIVE Replace(_, _, _)
Replace(s, from, to) ==
    LET k == FindFrom(s, from, 1)
    IN  IF k = 0 THEN s
        ELSE SubSeq(s, 1, k - 1) \o to
             \o Replace(SubSeq(s, k + Len(from), Len(s)), from, to)

\* ------------------------------------------------------------ argument builder

PathToken == "{path}"

\* The loop of build_command_arguments over arguments[i..]: the entries
\* pushed and whether any of them held the placeholder.
RECURSIVE BuildLoop(_, _, _, _, _)
BuildLoop(arguments, i, path, resolved, inserted_path) ==
    IF i > Len(arguments) THEN [resolved |-> resolved, inserted_path |-> inserted_path]
    ELSE IF Contains(arguments[i], PathToken)
         THEN BuildLoop(arguments, i + 1, path,
                        Append(resolved, Replace(arguments[i], PathToken, path)), TRUE)
         ELSE BuildLoop(arguments, i + 1, path,
                        Append(resolved, arguments[i]), inserted_path)

\* A builder that never appends the path when no placeholder was replaced.
BuildNeverAppend(arguments, path) ==
    LET after == IF arguments.is_some
                 THEN BuildLoop(arguments.value, 1, path, <<>>, FALSE)
                 ELSE [resolved |-> <<>>, inserted_path |-> FALSE]
    IN  after.resolved

\* A builder that appends the path whether or not a placeholder was replaced.
BuildAlwaysAppend(arguments, path) ==
    LET after == IF arguments.is_some
                 THEN BuildLoop(arguments.value, 1, path, <<>>, FALSE)
                 ELSE [resolved |-> <<>>, inserted_path |-> FALSE]
    IN  Append(after.resolved, path)

build_command_arguments(arguments, path) ==
    LET after == IF arguments.is_some
                 THEN BuildLoop(arguments.value, 1, path, <<>>, FALSE)
                 ELSE [resolved |-> <<>>, inserted_path |-> FALSE]
    IN  IF ~after.inserted_path
        THEN Append(after.resolved, path)
        ELSE after.resolved

\* ------------------------------------------------------------ paths

Windows == platform = "windows"
MacOS == platform = "macos"

\* std::path::is_separator: '\' and '/' on Windows, '/' elsewhere.
IsSeparator(c) == c = "/" \/ (Windows /\ c = "\\")

\* std::path::MAIN_SEPARATOR
MainSeparator == IF Windows THEN "\\" ELSE "/"

\* Index of the last character of s at or before i that satisfies the test
\* (a separator when sep, a dot otherwise), 0 when none.
RECURSIVE LastIndex(_, _, _)
LastIndex(s, i, sep) ==
    IF i = 0 THEN 0
    ELSE IF (sep /\ IsSeparator(Char(s, i))) \/ (~sep /\ Char(s, i) = ".") THEN i
    ELSE LastIndex(s, i - 1, sep)

\* Path::file_name: the text after the last separator.
FileName(path) == SubSeq(path, LastIndex(path, Len(path), TRUE) + 1, Len(path))

\* Path::extension: nothing when the file name has no dot, or only a leading
\* one; otherwise the text after its last dot.
Extension(path) ==
    LET name == FileName(path)
        dot == LastIndex(name, Len(name), FALSE)
    IN  IF name = "" \/ name = ".." \/ dot <= 1 THEN None
        ELSE Some(SubSeq(name, dot + 1, Len(name)))

\* Path::with_extension: the extension replaced, or added to a file name
\* that has none.
WithExtension(path, extension) ==
    LET name == FileName(path)
        dot == LastIndex(name, Len(name), FALSE)
        stem == IF dot <= 1 THEN path
                ELSE SubSeq(path, 1, Len(path) - (Len(name) - dot) - 1)
    IN  IF name = "" \/ name = ".." THEN path
        ELSE stem \o "." \o extension

\* Path::join of a relative name.
Join(dir, name) ==
    IF dir = "" \/ IsSeparator(Char(dir, Len(dir))) THEN dir \o name
    ELSE dir \o MainSeparator \o name

UpperCase == "ABCDEFGHIJKLMNOPQRSTUVWXYZ"
LowerCase == "abcdefghijklmnopqrstuvwxyz"

\* char::to_ascii_lowercase
LowerChar(c) ==
    IF \E k \in 1..Len(UpperCase) : Char(UpperCase, k) = c
    THEN Char(LowerCase, CHOOSE k \in 1..Len(UpperCase) : Char(UpperCase, k) = c)
    ELSE c

\* str::to_ascii_lowercase, character by character (the halves of s in turn).
RECURSIVE ToAsciiLowercase(_)
ToAsciiLowercase(s) ==
    IF s = "" THEN ""
    ELSE IF Len(s) = 1 THEN LowerChar(s)
    ELSE ToAsciiLowercase(SubSeq(s, 1, Len(s) \div 2))
         \o ToAsciiLowercase(SubSeq(s, Len(s) \div 2 + 1, Len(s)))

\* Path::is_file, Path::is_dir, Path::exists
is_file(path) == path \in files
is_dir(path) == path \in dirs
exists(path) == path \in files \cup dirs

\* ------------------------------------------------------------ environment

EnvKeys == {"PATH", "ProgramFiles", "ProgramFiles(x86)", "LOCALAPPDATA"}

\* No variable set.
NoEnv == [key \in EnvKeys |-> None]

\* std::env::var(key).ok() / std::env::var_os(key)
env_var(key) == env[key]

\* The separator of the entries of PATH: ';' on Windows, ':' elsewhere.
PathListSeparator == IF Windows THEN ";" ELSE ":"

\* std::env::split_paths
RECURSIVE split_paths(_)
split_paths(path_var) ==
    LET k == FindFrom(path_var, PathListSeparator, 1)
    IN  IF k = 0 THEN <<path_var>>
        ELSE <<SubSeq(path_var, 1, k - 1)>>
             \o split_paths(SubSeq(path_var, k + 1, Len(path_var)))

\* fs::read_dir(dir): the names of the entries in listing order, or an
\* error when dir cannot be listed.
read_dir(dir) ==
    IF dir \in DOMAIN readdir /\ is_dir(dir) THEN Ok(readdir[dir]) ELSE Err(<<>>)

\* ------------------------------------------------------------ locators

\* The extensions find_in_path tries on Windows after the exact name.
PathExtensions == <<"exe", "cmd", "bat">>

\* The inner for loop of find_in_path over PathExtensions[j..].
RECURSIVE FindWithExtension(_, _, _)
FindWithExtension(dir, command, j) ==
    IF j > Len(PathExtensions) THEN None
    ELSE LET with_ext == Join(dir, command \o "." \o PathExtensions[j])
         IN  IF is_file(with_ext) THEN Some(with_ext)
             ELSE FindWithExtension(dir, command, j + 1)

\* The for loop of find_in_path over dirs[i..]; files_only tells whether a
\* candidate must be a regular file (is_file) or may be anything that exists.
RECURSIVE FindInDirs(_, _, _, _)
FindInDirs(search, command, i, files_only) ==
    IF i > Len(search) THEN None
    ELSE LET candidate == Join(search[i], command)
             with_ext == IF Windows /\ ~Extension(command).is_some
                         THEN FindWithExtension(search[i], command, 1)
                         ELSE None
         IN  IF (IF files_only THEN is_file(candidate) ELSE exists(candidate))
             THEN Some(candidate)
             ELSE IF with_ext.is_some THEN with_ext
             ELSE FindInDirs(search, command, i + 1, files_only)

\* A find_in_path that accepts any existing candidate, directories too.
FindInPathExists(command) ==
    LET path_var == env_var("PATH")
    IN  IF ~path_var.is_some THEN None
        ELSE FindInDirs(split_paths(path_var.value), command, 1, FALSE)

find_in_path(command) ==
    LET path_var == env_var("PATH")
    IN  IF ~path_var.is_some THEN None
        ELSE FindInDirs(split_paths(path_var.value), command, 1, TRUE)

\* The characters of file names, in the order of their bytes.
ByteOrder == " -.0123456789ABCDEFGHIJKLMNOPQRSTUVWXYZ_abcdefghijklmnopqrstuvwxyz"

\* The rank of the byte of a character among them.
Byte(c) == FindFrom(ByteOrder, c, 1)

\* Ordering of OsStr: a < b, compared byte by byte, a prefix first.
RECURSIVE OsStrLess(_, _)
OsStrLess(a, b) ==
    IF b = "" THEN FALSE
    ELSE IF a = "" THEN TRUE
    ELSE IF Byte(Char(a, 1)) # Byte(Char(b, 1)) THEN Byte(Char(a, 1)) < Byte(Char(b, 1))
    ELSE OsStrLess(SubSeq(a, 2, Len(a)), SubSeq(b, 2, Len(b)))

\* One path inserted into a sequence sorted by file name, after its equals.
RECURSIVE InsertSorted(_, _)
InsertSorted(sorted, path) ==
    IF sorted = <<>> THEN <<path>>
    ELSE IF OsStrLess(FileName(path), FileName(Head(sorted)))
         THEN <<path>> \o sorted
         ELSE <<Head(sorted)>> \o InsertSorted(Tail(sorted), path)

\* builds.sort_by(|left, right| left.file_name().cmp(&right.file_name()))
RECURSIVE SortByFileName(_)
SortByFileName(builds) ==
    IF builds = <<>> THEN <<>>
    ELSE InsertSorted(SortByFileName(SubSeq(builds, 1, Len(builds) - 1)),
                      builds[Len(builds)])

\* The read_dir loop of find_jetbrains_toolbox_exe over entries[i..]: the
\* build directories that hold bin/exe_name, in listing order.
RECURSIVE ToolboxBuilds(_, _, _, _)
ToolboxBuilds(base, entries, i, exe_name) ==
    IF i > Len(entries) THEN <<>>
    ELSE LET path == Join(base, entries[i])
             rest == ToolboxBuilds(base, entries, i + 1, exe_name)
         IN  IF is_dir(path) /\ is_file(Join(Join(path, "bin"), exe_name))
             THEN <<path>> \o rest
             ELSE rest

\* The directory of the builds of a product in the Toolbox tree.
ToolboxBase(local, product_code) ==
    Join(Join(Join(Join(Join(local, "JetBrains"), "Toolbox"), "apps"), product_code), "ch-0")

\* A toolbox locator that takes the build listed last, without sorting.
ToolboxUnsorted(product_code, exe_name) ==
    LET local == env_var("LOCALAPPDATA")
        base == ToolboxBase(local.value, product_code)
        entries == read_dir(base)
        builds == IF entries.is_ok THEN ToolboxBuilds(base, entries.value, 1, exe_name)
                  ELSE <<>>
    IN  IF ~local.is_some \/ ~is_dir(base) \/ builds = <<>> THEN None
        ELSE Some(Join(Join(builds[Len(builds)], "bin"), exe_name))

find_jetbrains_toolbox_exe(product_code, exe_name) ==
    LET local == env_var("LOCALAPPDATA")
        base == ToolboxBase(local.value, product_code)
        entries == read_dir(base)
        builds == SortByFileName(
                      IF entries.is_ok THEN ToolboxBuilds(base, entries.value, 1, exe_name)
                      ELSE <<>>)
        latest == builds[Len(builds)]
        exe_path == Join(Join(latest, "bin"), exe_name)
    IN  IF ~local.is_some THEN None
        ELSE IF ~is_dir(base) THEN None
        ELSE IF builds = <<>> THEN None
        ELSE IF is_file(exe_path) THEN Some(exe_path)
        ELSE None

\* find_jetbrains_in_root: the read_dir loop over entries[i..].
RECURSIVE FindInRootLoop(_, _, _, _)
FindInRootLoop(root, entries, i, exe_name) ==
    IF i > Len(entries) THEN None
    ELSE LET path == Join(root, entries[i])
             candidate == Join(Join(path, "bin"), exe_name)
         IN  IF is_dir(path) /\ is_file(candidate) THEN Some(candidate)
             ELSE FindInRootLoop(root, entries, i + 1, exe_name)

find_jetbrains_in_root(root, exe_name) ==
    LET entries == read_dir(root)
    IN  IF ~is_dir(root) THEN None
        ELSE IF ~entries.is_ok THEN None
        ELSE FindInRootLoop(root, entries.value, 1, exe_name)

\* The first Some among the lookups of roots[i..].
RECURSIVE FindInRoots(_, _, _)
FindInRoots(roots, i, exe_name) ==
    IF i > Len(roots) THEN None
    ELSE LET found == find_jetbrains_in_root(roots[i], exe_name)
         IN  IF found.is_some THEN found ELSE FindInRoots(roots, i + 1, exe_name)

find_jetbrains_install_exe(exe_name) ==
    LET program_files == env_var("ProgramFiles")
        program_files_x86 == env_var("ProgramFiles(x86)")
        local == env_var("LOCALAPPDATA")
        roots == (IF program_files.is_some
                  THEN <<Join(program_files.value, "JetBrains")>> ELSE <<>>)
                 \o (IF program_files_x86.is_some
                     THEN <<Join(program_files_x86.value, "JetBrains")>> ELSE <<>>)
                 \o (IF local.is_some
                     THEN <<Join(local.value, "JetBrains"),
                            Join(Join(local.value, "Programs"), "JetBrains")>>
                     ELSE <<>>)
    IN  FindInRoots(roots, 1, exe_name)

\* find_windows_path: the loops over env_keys[k..] and suffixes[j..].
RECURSIVE FindWindowsPathLoop(_, _, _, _)
FindWindowsPathLoop(env_keys, suffixes, k, j) ==
    IF k > Len(env_keys) THEN None
    ELSE IF ~env_var(env_keys[k]).is_some \/ j > Len(suffixes)
         THEN FindWindowsPathLoop(env_keys, suffixes, k + 1, 1)
    ELSE LET candidate == Join(env_var(env_keys[k]).value, suffixes[j])
         IN  IF is_file(candidate) THEN Some(candidate)
             ELSE FindWindowsPathLoop(env_keys, suffixes, k, j + 1)

find_windows_path(env_keys, suffixes) == FindWindowsPathLoop(env_keys, suffixes, 1, 1)

\* Option::or_else
OrElse(first, second) == IF first.is_some THEN first ELSE second

find_windows_vscode ==
    OrElse(find_windows_path(<<"ProgramFiles", "ProgramFiles(x86)", "LOCALAPPDATA">>,
                             <<"Microsoft VS Code\\Code.exe",
                               "Programs\\Microsoft VS Code\\Code.exe">>),
           find_in_path("code"))

find_windows_vscode_insiders ==
    OrElse(find_windows_path(<<"ProgramFiles", "ProgramFiles(x86)", "LOCALAPPDATA">>,
                             <<"Microsoft VS Code Insiders\\Code - Insiders.exe",
                               "Programs\\Microsoft VS Code Insiders\\Code - Insiders.exe">>),
           find_in_path("code-insiders"))

\* ------------------------------------------------------------ discovery

DevToolPreset(id, name, command_path, arguments) ==
    [id |-> id, name |-> name, command_path |-> command_path, arguments |-> arguments]

\* push_macos_app: the presets after the call (one more when the bundle
\* exists; the bool returned is whether one was pushed).
push_macos_app(presets, id, display_name, app_name) ==
    LET bundle_path == Join("/Applications", app_name \o ".app")
    IN  IF ~exists(bundle_path) THEN presets
        ELSE Append(presets,
                    DevToolPreset(id, display_name, "/usr/bin/open",
                                  <<"-a", app_name, "{path}">>))

\* The bool push_macos_app returns.
Pushed(before, after) == Len(after) > Len(before)

\* A macOS discovery that pushes the community editions whether or not the
\* full editions were found.
MacosBothEditions ==
    LET p1 == push_macos_app(<<>>, "vscode", "Visual Studio Code", "Visual Studio Code")
        p2 == push_macos_app(p1, "vscode-insiders", "Visual Studio Code - Insiders",
                             "Visual Studio Code - Insiders")
        p3 == push_macos_app(p2, "intellij-idea", "IntelliJ IDEA", "IntelliJ IDEA")
        p4 == push_macos_app(p3, "intellij-idea", "IntelliJ IDEA Community",
                             "IntelliJ IDEA CE")
        p5 == push_macos_app(p4, "pycharm", "PyCharm", "PyCharm")
        p6 == push_macos_app(p5, "pycharm", "PyCharm Community", "PyCharm CE")
        p7 == push_macos_app(p6, "webstorm", "WebStorm", "WebStorm")
        p8 == push_macos_app(p7, "goland", "GoLand", "GoLand")
        p9 == push_macos_app(p8, "rider", "Rider", "Rider")
        p10 == push_macos_app(p9, "clion", "CLion", "CLion")
        p11 == push_macos_app(p10, "phpstorm", "PhpStorm", "PhpStorm")
    IN  push_macos_app(p11, "datagrip", "DataGrip", "DataGrip")

list_dev_tool_presets_macos ==
    LET p1 == push_macos_app(<<>>, "vscode", "Visual Studio Code", "Visual Studio Code")
        p2 == push_macos_app(p1, "vscode-insiders", "Visual Studio Code - Insiders",
                             "Visual Studio Code - Insiders")
        p3 == push_macos_app(p2, "intellij-idea", "IntelliJ IDEA", "IntelliJ IDEA")
        p4 == IF ~Pushed(p2, p3)
              THEN push_macos_app(p3, "intellij-idea", "IntelliJ IDEA Community",
                                  "IntelliJ IDEA CE")
              ELSE p3
        p5 == push_macos_app(p4, "pycharm", "PyCharm", "PyCharm")
        p6 == IF ~Pushed(p4, p5)
              THEN push_macos_app(p5, "pycharm", "PyCharm Community", "PyCharm CE")
              ELSE p5
        p7 == push_macos_app(p6, "webstorm", "WebStorm", "WebStorm")
        p8 == push_macos_app(p7, "goland", "GoLand", "GoLand")
        p9 == push_macos_app(p8, "rider", "Rider", "Rider")
        p10 == push_macos_app(p9, "clion", "CLion", "CLion")
        p11 == push_macos_app(p10, "phpstorm", "PhpStorm", "PhpStorm")
    IN  push_macos_app(p11, "datagrip", "DataGrip", "DataGrip")

build_windows_preset(id, name, command_path) ==
    DevToolPreset(id, name, command_path, <<"{path}">>)

add_jetbrains_windows_preset(presets, id, name, toolbox_code, exe_name) ==
    LET path == OrElse(find_jetbrains_toolbox_exe(toolbox_code, exe_name),
                       find_jetbrains_install_exe(exe_name))
    IN  IF path.is_some THEN Append(presets, build_windows_preset(id, name, path.value))
        ELSE presets

list_dev_tool_presets_windows ==
    LET vscode == find_windows_vscode
        p1 == IF vscode.is_some
              THEN <<build_windows_preset("vscode", "Visual Studio Code", vscode.value)>>
              ELSE <<>>
        insiders == find_windows_vscode_insiders
        p2 == IF insiders.is_some
              THEN Append(p1, build_windows_preset("vscode-insiders",
                                                   "Visual Studio Code - Insiders",
                                                   insiders.value))
              ELSE p1
        idea == OrElse(find_jetbrains_toolbox_exe("IDEA-U", "idea64.exe"),
                       OrElse(find_jetbrains_toolbox_exe("IDEA-C", "idea64.exe"),
                              find_jetbrains_install_exe("idea64.exe")))
        p3 == IF idea.is_some
              THEN Append(p2, build_windows_preset(
                                  "intellij-idea",
                                  IF Contains(ToAsciiLowercase(idea.value), "idea-c")
                                  THEN "IntelliJ IDEA Community" ELSE "IntelliJ IDEA",
                                  idea.value))
              ELSE p2
        pycharm == OrElse(find_jetbrains_toolbox_exe("PyCharm-P", "pycharm64.exe"),
                          OrElse(find_jetbrains_toolbox_exe("PyCharm-C", "pycharm64.exe"),
                                 find_jetbrains_install_exe("pycharm64.exe")))
        p4 == IF pycharm.is_some
              THEN Append(p3, build_windows_preset(
                                  "pycharm",
                                  IF Contains(ToAsciiLowercase(pycharm.value), "pycharm-c")
                                  THEN "PyCharm Community" ELSE "PyCharm",
                                  pycharm.value))
              ELSE p3
        p5 == add_jetbrains_windows_preset(p4, "webstorm", "WebStorm", "WebStorm",
                                           "webstorm64.exe")
        p6 == add_jetbrains_windows_preset(p5, "goland", "GoLand", "GoLand", "goland64.exe")
        p7 == add_jetbrains_windows_preset(p6, "rider", "Rider", "Rider", "rider64.exe")
        p8 == add_jetbrains_windows_preset(p7, "clion", "CLion", "CLion", "clion64.exe")
        p9 == add_jetbrains_windows_preset(p8, "phpstorm", "PhpStorm", "PhpStorm",
                                           "phpstorm64.exe")
    IN  add_jetbrains_windows_preset(p9, "datagrip", "DataGrip", "DataGrip",
                                     "datagrip64.exe")

build_linux_preset(id, name, command_path) ==
    DevToolPreset(id, name, command_path, <<"{path}">>)

add_linux_preset(presets, id, name, command) ==
    LET command_path == find_in_path(command)
    IN  IF command_path.is_some
        THEN Append(presets, build_linux_preset(id, name, command_path.value))
        ELSE presets

list_dev_tool_presets_linux ==
    LET p1 == add_linux_preset(<<>>, "vscode", "Visual Studio Code", "code")
        p2 == add_linux_preset(p1, "vscode-insiders", "Visual Studio Code - Insiders",
                               "code-insiders")
        p3 == add_linux_preset(p2, "intellij-idea", "IntelliJ IDEA", "idea")
        p4 == add_linux_preset(p3, "webstorm", "WebStorm", "webstorm")
        p5 == add_linux_preset(p4, "pycharm", "PyCharm", "pycharm")
        p6 == add_linux_preset(p5, "goland", "GoLand", "goland")
        p7 == add_linux_preset(p6, "rider", "Rider", "rider")
        p8 == add_linux_preset(p7, "clion", "CLion", "clion")
        p9 == add_linux_preset(p8, "phpstorm", "PhpStorm", "phpstorm")
    IN  add_linux_preset(p9, "datagrip", "DataGrip", "datagrip")

\* The presets a discovery yields, for the platform.
DiscoveredPresets ==
    IF MacOS THEN list_dev_tool_presets_macos
    ELSE IF Windows THEN list_dev_tool_presets_windows
    ELSE list_dev_tool_presets_linux

\* A discovery that goes on from the vector of the call before instead of
\* a fresh one.
ListIntoPreviousVector ==
    (IF ret.is_some THEN ret.value ELSE <<>>) \o DiscoveredPresets

list_dev_tool_presets == DiscoveredPresets

\* ------------------------------------------------------------ processes

\* Largest exit status a process of the model exits with.
MaxExitCode == 1

\* raw_os_error of a spawn that failed: 2 file not found, 3 path not found,
\* 5 access denied, 193 bad exe format, 216 exe machine type mismatch, or
\* an error that carries no OS code.
OsErrors == {Some(2), Some(3), Some(5), Some(193), Some(216), None}

\* What the OS answers to one spawn: the process could not start, or it ran
\* and exited with a status.
Outcomes ==
    {[started |-> FALSE, error |-> e, code |-> 0] : e \in OsErrors}
    \cup {[started |-> TRUE, error |-> None, code |-> c] : c \in 0..MaxExitCode}

\* The Display text of an io::Error.
OsErrorText(error) ==
    IF ~error.is_some THEN "other error"
    ELSE CASE error.value = 2 -> "os error 2"
           [] error.value = 3 -> "os error 3"
           [] error.value = 5 -> "os error 5"
           [] error.value = 193 -> "os error 193"
           [] error.value = 216 -> "os error 216"
           [] OTHER -> "os error"

\* Command::new(program).args(args).status(), answered by the OS with
\* outcome: the spawn attempt and the Result<ExitStatus, io::Error>.
Status(program, args, outcome) ==
    [spawn |-> [program |-> program, args |-> args, outcome |-> outcome],
     result |-> IF outcome.started THEN Ok(outcome.code) ELSE Err(outcome.error)]

\* ExitStatus::success
Success(status) == status = 0

\* ------------------------------------------------------------ launcher

resolve_windows_command_kind(command_path) ==
    LET extension == Extension(command_path)
    IN  IF ~extension.is_some THEN None
        ELSE LET ext == ToAsciiLowercase(extension.value)
             IN  IF ext = "cmd" \/ ext = "bat" THEN Some("Cmd")
                 ELSE IF ext = "ps1" THEN Some("PowerShell")
                 ELSE None

\* A trigger that takes every failure to start for a missing command.
FallbackOnAnyError(error) == TRUE

should_try_windows_fallback(error) ==
    error.is_some /\ error.value \in {2, 3, 193, 216}

\* The sibling extensions probed, in order, each with its invocation kind.
FallbackCandidates ==
    << <<"cmd", "Cmd">>, <<"bat", "Cmd">>, <<"ps1", "PowerShell">>,
       <<"exe", "Direct">>, <<"com", "Direct">> >>

\* The probe order with the directly executable extensions first.
FallbackCandidatesDirectFirst ==
    << <<"exe", "Direct">>, <<"com", "Direct">>, <<"cmd", "Cmd">>,
       <<"bat", "Cmd">>, <<"ps1", "PowerShell">> >>

\* The for loop of resolve_windows_command_fallback over candidates[i..].
RECURSIVE FallbackLoop(_, _, _)
FallbackLoop(base_path, candidates, i) ==
    IF i > Len(candidates) THEN None
    ELSE LET candidate == WithExtension(base_path, candidates[i][1])
         IN  IF is_file(candidate)
             THEN Some([kind |-> candidates[i][2], path |-> candidate])
             ELSE FallbackLoop(base_path, candidates, i + 1)

\* A fallback that probes the directly executable siblings first.
FallbackDirectFirst(command_path, error) ==
    IF Extension(command_path).is_some \/ ~should_try_windows_fallback(error)
    THEN None
    ELSE FallbackLoop(command_path, FallbackCandidatesDirectFirst, 1)

resolve_windows_command_fallback(command_path, error) ==
    IF Extension(command_path).is_some \/ ~should_try_windows_fallback(error)
    THEN None
    ELSE FallbackLoop(command_path, FallbackCandidates, 1)

execute_windows_command(kind, executable, arguments, outcome) ==
    CASE kind = "Direct" -> Status(executable, arguments, outcome)
      [] kind = "Cmd" ->
            Status("cmd.exe", <<"/C", executable>> \o arguments, outcome)
      [] kind = "PowerShell" ->
            Status("powershell.exe",
                   <<"-NoProfile", "-ExecutionPolicy", "Bypass", "-File", executable>>
                       \o arguments,
                   outcome)

\* A launcher that also tries the sibling after the first process ran and
\* exited non-zero.
SpawnRetryAfterExit(command_path, arguments, os) ==
    LET first == Status(command_path, arguments, os[1])
        fallback == FallbackLoop(command_path, FallbackCandidates, 1)
        second == execute_windows_command(fallback.value.kind, fallback.value.path,
                                          arguments, os[2])
    IN  IF Windows /\ ~Extension(command_path).is_some /\ fallback.is_some
           /\ ~(first.result.is_ok /\ Success(first.result.value))
        THEN [spawned |-> <<first.spawn, second.spawn>>, result |-> second.result]
        ELSE [spawned |-> <<first.spawn>>, result |-> first.result]

\* spawn_command_with_shell_support: the spawn attempts made and the
\* Result returned.  os[1], os[2] are the OS's answers to the first and the
\* second spawn.
spawn_command_with_shell_support(command_path, arguments, os) ==
    IF Windows
    THEN LET kind == resolve_windows_command_kind(command_path)
         IN  IF kind.is_some
             THEN LET only == execute_windows_command(kind.value, command_path,
                                                      arguments, os[1])
                  IN  [spawned |-> <<only.spawn>>, result |-> only.result]
             ELSE LET first == Status(command_path, arguments, os[1])
                  IN  IF first.result.is_ok
                      THEN [spawned |-> <<first.spawn>>, result |-> first.result]
                      ELSE LET fallback == resolve_windows_command_fallback(
                                               command_path, first.result.error)
                           IN  IF fallback.is_some
                               THEN LET second == execute_windows_command(
                                                      fallback.value.kind,
                                                      fallback.value.path,
                                                      arguments, os[2])
                                    IN  [spawned |-> <<first.spawn, second.spawn>>,
                                         result |-> second.result]
                               ELSE [spawned |-> <<first.spawn>>,
                                     result |-> first.result]
    ELSE LET only == Status(command_path, arguments, os[1])
         IN  [spawned |-> <<only.spawn>>, result |-> only.result]

\* format!("{spawn_error_prefix} {err}")
SpawnErrorMessage(spawn_error_prefix, error) ==
    spawn_error_prefix \o " " \o OsErrorText(error)

\* A run that reports the spawn error prefix for a non-zero exit as well.
RunAlwaysPrefix(command_path, arguments, spawn_error_prefix, failure_message, os) ==
    LET run == spawn_command_with_shell_support(command_path, arguments, os)
    IN  [spawned |-> run.spawned,
         result |-> IF ~run.result.is_ok
                    THEN Err(SpawnErrorMessage(spawn_error_prefix, run.result.error))
                    ELSE IF Success(run.result.value) THEN Ok(<<>>)
                    ELSE Err(SpawnErrorMessage(spawn_error_prefix, None))]

run_command_with_shell_support(command_path, arguments, spawn_error_prefix, failure_message, os) ==
    LET run == spawn_command_with_shell_support(command_path, arguments, os)
    IN  [spawned |-> run.spawned,
         result |-> IF ~run.result.is_ok
                    THEN Err(SpawnErrorMessage(spawn_error_prefix, run.result.error))
                    ELSE IF Success(run.result.value) THEN Ok(<<>>)
                    ELSE Err(failure_message)]

\* ------------------------------------------------------------ actions

\* A spawn whose only result is Ok(()) on exit 0, Err(failure_message) on
\* any other exit and Err(prefix + " " + error) when it could not start:
\* the status().map_err(..)? / status.success() pattern.
StatusOrFail(program, args, spawn_error_prefix, failure_message, outcome) ==
    LET s == Status(program, args, outcome)
    IN  [spawned |-> <<s.spawn>>,
         result |-> IF ~s.result.is_ok
                    THEN Err(SpawnErrorMessage(spawn_error_prefix, s.result.error))
                    ELSE IF Success(s.result.value) THEN Ok(<<>>)
                    ELSE Err(failure_message)]

\* open_with_default: /usr/bin/open, explorer or xdg-open on the path
\* ("无法打开路径:", "打开路径失败").
open_with_default(path, os) ==
    StatusOrFail(IF MacOS THEN "/usr/bin/open"
                 ELSE IF Windows THEN "explorer" ELSE "xdg-open",
                 <<path>>, "cannot open path:", "open path failed", os[1])

\* open_in_finder ("无法打开 Finder:", "Finder 打开失败").
open_in_finder(path, os) ==
    IF MacOS
    THEN StatusOrFail("/usr/bin/open", <<"-R", path>>,
                      "cannot open Finder:", "Finder open failed", os[1])
    ELSE open_with_default(path, os)

\* open_windows_terminal ("无法打开终端:", "终端打开失败").
open_windows_terminal(path, os) ==
    LET wt == Status("wt.exe", <<"-d", path>>, os[1])
        escaped_path == Replace(path, "\"", "\"\"")
        command == "Set-Location -LiteralPath \"" \o escaped_path \o "\""
        ps == StatusOrFail("powershell.exe", <<"-NoExit", "-Command", command>>,
                           "cannot open terminal:", "terminal open failed", os[2])
    IN  IF wt.result.is_ok /\ Success(wt.result.value)
        THEN [spawned |-> <<wt.spawn>>, result |-> Ok(<<>>)]
        ELSE [spawned |-> <<wt.spawn>> \o ps.spawned, result |-> ps.result]

\* The AppleScript open_in_terminal hands to osascript.
TerminalScript(path) ==
    "tell application \"Terminal\"\n    do script \"cd \\\""
        \o Replace(path, "\"", "\\\"")
        \o "\\\"\"\n    activate\nend tell"

\* An open_in_terminal that goes on to the platform's default terminal when
\* the override did not open.
TerminalOverrideThenDefault(params, os) ==
    LET override == run_command_with_shell_support(
                        params.command_path.value,
                        build_command_arguments(params.arguments, params.path),
                        "cannot open terminal:", "terminal open failed", os)
        rest == <<os[3], os[3], os[3]>>
        default == IF Windows THEN open_windows_terminal(params.path, rest)
                   ELSE IF MacOS
                        THEN StatusOrFail("/usr/bin/osascript",
                                          <<"-e", TerminalScript(params.path)>>,
                                          "cannot open terminal:", "terminal open failed",
                                          rest[1])
                   ELSE open_with_default(params.path, rest)
    IN  IF params.command_path.is_some /\ override.result.is_ok THEN override
        ELSE IF params.command_path.is_some
             THEN [spawned |-> override.spawned \o default.spawned,
                   result |-> default.result]
        ELSE default

\* open_in_terminal ("无法打开终端:", "终端打开失败").
open_in_terminal(params, os) ==
    IF params.command_path.is_some
    THEN run_command_with_shell_support(
             params.command_path.value,
             build_command_arguments(params.arguments, params.path),
             "cannot open terminal:", "terminal open failed", os)
    ELSE IF Windows THEN open_windows_terminal(params.path, os)
    ELSE IF MacOS
         THEN StatusOrFail("/usr/bin/osascript", <<"-e", TerminalScript(params.path)>>,
                           "cannot open terminal:", "terminal open failed", os[1])
    ELSE open_with_default(params.path, os)

\* An attempt that falls through to the next one when it could not start.
EditorOpenFallsThrough(flag, designation, path, outcome) ==
    LET s == Status("/usr/bin/open", <<flag, designation, path>>, outcome)
    IN  [spawn |-> s.spawn,
         returns |-> s.result.is_ok /\ Success(s.result.value),
         result |-> Ok(<<>>)]

\* One /usr/bin/open attempt of open_in_editor: returns from the call when
\* the spawn could not start (Err) or the process exited 0 (Ok).
EditorOpen(flag, designation, path, outcome) ==
    LET s == Status("/usr/bin/open", <<flag, designation, path>>, outcome)
    IN  [spawn |-> s.spawn,
         returns |-> ~s.result.is_ok \/ Success(s.result.value),
         result |-> IF ~s.result.is_ok
                    THEN Err(SpawnErrorMessage("open editor failed:", s.result.error))
                    ELSE Ok(<<>>)]

\* open_in_editor ("打开编辑器失败:", "打开编辑器失败", "未能打开编辑器").
open_in_editor(params, os) ==
    LET by_name == MacOS /\ params.app_name.is_some
        first == EditorOpen("-a", params.app_name.value, params.path, os[1])
        after_name == IF by_name THEN <<first.spawn>> ELSE <<>>
        by_bundle == MacOS /\ params.bundle_id.is_some
        second == EditorOpen("-b", params.bundle_id.value, params.path,
                             os[Len(after_name) + 1])
        after_bundle == IF by_bundle THEN Append(after_name, second.spawn)
                        ELSE after_name
        run == run_command_with_shell_support(
                   params.command_path.value,
                   build_command_arguments(params.arguments, params.path),
                   "open editor failed:", "open editor failed",
                   SubSeq(os, Len(after_bundle) + 1, Len(os)))
    IN  IF by_name /\ first.returns
        THEN [spawned |-> after_name, result |-> first.result]
        ELSE IF by_bundle /\ second.returns
        THEN [spawned |-> after_bundle, result |-> second.result]
        ELSE IF params.command_path.is_some
        THEN [spawned |-> after_bundle \o run.spawned, result |-> run.result]
        ELSE [spawned |-> after_bundle, result |-> Err("could not open editor")]

\* ------------------------------------------------------------ host inputs

\* Entries an argument template is made of.
ArgStrings == {"{path}", "--wait", "-g{path}:1", "{path}{path}", "{pat"}

RECURSIVE SeqsUpTo(_, _)
SeqsUpTo(S, n) ==
    IF n = 0 THEN {<<>>}
    ELSE LET shorter == SeqsUpTo(S, n - 1)
         IN  shorter \cup {Append(s, x) : s \in shorter, x \in S}

ArgumentTemplates == {None} \cup {Some(t) : t \in SeqsUpTo(ArgStrings, MaxArgs)}

\* Target paths the host passes.
TargetPaths == {"/tmp/project", "C:\\work dir", "{path}"}

NoCall == [fn |-> "none"]

\* ------------------------------------------------------------ SpecBuild

InitBuild ==
    /\ platform \in {"macos", "windows", "linux"}
    /\ env = NoEnv
    /\ files = {}
    /\ dirs = {}
    /\ readdir = <<>>
    /\ call = NoCall
    /\ spawned = <<>>
    /\ ret = None

\* The host calls build_command_arguments(arguments, path).
CallBuildCommandArguments ==
    \E arguments \in ArgumentTemplates, path \in TargetPaths :
        /\ call' = [fn |-> "build_command_arguments",
                    arguments |-> arguments, path |-> path]
        /\ ret' = Some(build_command_arguments(arguments, path))
        /\ spawned' = <<>>
        /\ UNCHANGED <<platform, env, files, dirs, readdir>>

NextBuild == CallBuildCommandArguments

SpecBuild == InitBuild /\ [][NextBuild]_vars

\* ------------------------------------------------------------ SpecLaunch

\* Command paths the host configures.
LaunchCommandPaths ==
    {"tool", "C:\\v1.2\\tool", "run.cmd", "run.BAT", "s.Ps1", "app.exe"}

\* Files that may exist beside the extension-less command paths.
SiblingFiles ==
    {"tool.cmd", "tool.bat", "tool.ps1", "tool.exe", "tool.com",
     "C:\\v1.2\\tool.exe"}

\* Paths that may be a directory instead of a file.
SiblingDirs == {"tool.cmd"}

LaunchArguments == {<<"--wait", "/tmp/project">>}

\* The (spawn_error_prefix, failure_message) pairs of the callers:
\* open_in_terminal ("无法打开终端:", "终端打开失败") and
\* open_in_editor ("打开编辑器失败:", "打开编辑器失败").
CallerMessages ==
    {<<"cannot open terminal:", "terminal open failed">>,
     <<"open editor failed:", "open editor failed">>}

InitLaunch ==
    /\ platform \in {"macos", "windows", "linux"}
    /\ env = NoEnv
    /\ files \in SUBSET SiblingFiles
    /\ dirs \in SUBSET (SiblingDirs \ files)
    /\ readdir = <<>>
    /\ call = NoCall
    /\ spawned = <<>>
    /\ ret = None

\* The host's one launch: run_command_with_shell_support(command_path,
\* arguments, spawn_error_prefix, failure_message).
CallRunCommandWithShellSupport ==
    /\ call = NoCall
    /\ \E command_path \in LaunchCommandPaths, arguments \in LaunchArguments,
          messages \in CallerMessages, first \in Outcomes, second \in Outcomes :
          LET run == run_command_with_shell_support(
                         command_path, arguments, messages[1], messages[2],
                         <<first, second>>)
          IN  /\ call' = [fn |-> "run_command_with_shell_support",
                          command_path |-> command_path, arguments |-> arguments,
                          spawn_error_prefix |-> messages[1],
                          failure_message |-> messages[2]]
              /\ spawned' = run.spawned
              /\ ret' = Some(run.result)
    /\ UNCHANGED <<platform, env, files, dirs, readdir>>

NextLaunch == CallRunCommandWithShellSupport

SpecLaunch == InitLaunch /\ [][NextLaunch]_vars

\* ------------------------------------------------------------ SpecActions

\* Target paths of the actions; one holds a double quote.
ActionPaths == {"/tmp/project", "/tmp/a\"b"}

EditorParams ==
    [path : {"/tmp/project"},
     app_name : {None, Some("Visual Studio Code")},
     bundle_id : {None, Some("com.microsoft.VSCode")},
     command_path : {None, Some("subl"), Some("tool")},
     arguments : {None, Some(<<"--wait", "{path}">>)}]

TerminalParams ==
    [path : ActionPaths,
     command_path : {None, Some("tool"), Some("run.cmd")},
     arguments : {None, Some(<<"-d", "{path}">>)}]

\* The OS's answers to up to three spawns of one call.
OutcomeTriples == Outcomes \X Outcomes \X Outcomes

InitActions ==
    /\ platform \in {"macos", "windows", "linux"}
    /\ env = NoEnv
    /\ files \in SUBSET {"tool.cmd", "tool.exe"}
    /\ dirs = {}
    /\ readdir = <<>>
    /\ call = NoCall
    /\ spawned = <<>>
    /\ ret = None

CallOpenInFinder ==
    /\ call = NoCall
    /\ \E path \in ActionPaths, os \in OutcomeTriples :
          LET done == open_in_finder(path, os)
          IN  /\ call' = [fn |-> "open_in_finder", path |-> path]
              /\ spawned' = done.spawned
              /\ ret' = Some(done.result)
    /\ UNCHANGED <<platform, env, files, dirs, readdir>>

CallOpenInTerminal ==
    /\ call = NoCall
    /\ \E params \in TerminalParams, os \in OutcomeTriples :
          LET done == open_in_terminal(params, os)
          IN  /\ call' = [fn |-> "open_in_terminal", params |-> params]
              /\ spawned' = done.spawned
              /\ ret' = Some(done.result)
    /\ UNCHANGED <<platform, env, files, dirs, readdir>>

CallOpenInEditor ==
    /\ call = NoCall
    /\ \E params \in EditorParams, os \in OutcomeTriples :
          LET done == open_in_editor(params, os)
          IN  /\ call' = [fn |-> "open_in_editor", params |-> params]
              /\ spawned' = done.spawned
              /\ ret' = Some(done.result)
    /\ UNCHANGED <<platform, env, files, dirs, readdir>>

NextActions == CallOpenInFinder \/ CallOpenInTerminal \/ CallOpenInEditor

SpecActions == InitActions /\ [][NextActions]_vars

\* ------------------------------------------------------------ SpecFind

\* The directories PATH may list.
SearchDirs == IF Windows THEN {"C:\\a", "D:\\b"} ELSE {"/a", "/b"}

\* The value of PATH that lists the directories of search.
RECURSIVE JoinPaths(_)
JoinPaths(search) ==
    IF search = <<>> THEN ""
    ELSE IF Len(search) = 1 THEN search[1]
    ELSE search[1] \o PathListSeparator \o JoinPaths(Tail(search))

\* The names a file that find_in_path may find can have.
CommandFiles == {"code", "code.exe", "code.cmd", "code.bat"}

InitFind ==
    /\ platform \in {"windows", "linux"}
    /\ \E path_var \in {None} \cup {Some(JoinPaths(search)) :
                                      search \in SeqsUpTo(SearchDirs, MaxPathDirs)} :
          env = [NoEnv EXCEPT !["PATH"] = path_var]
    /\ files \in SUBSET {Join(dir, name) : dir \in SearchDirs, name \in CommandFiles}
    /\ \E named \in SUBSET ({Join(dir, "code") : dir \in SearchDirs} \ files) :
          dirs = SearchDirs \cup named
    /\ readdir = <<>>
    /\ call = NoCall
    /\ spawned = <<>>
    /\ ret = None

\* The one lookup: find_in_path(command).
CallFindInPath ==
    /\ call = NoCall
    /\ \E command \in {"code", "code.exe"} :
          /\ call' = [fn |-> "find_in_path", command |-> command]
          /\ ret' = find_in_path(command)
    /\ UNCHANGED <<platform, env, files, dirs, readdir, spawned>>

NextFind == CallFindInPath

SpecFind == InitFind /\ [][NextFind]_vars

\* ------------------------------------------------------------ SpecToolbox

LocalAppData == "C:\\Users\\dev\\AppData\\Local"

\* The directory of the builds of IntelliJ IDEA Ultimate in the Toolbox tree.
IdeaBuilds == LocalAppData \o "\\JetBrains\\Toolbox\\apps\\IDEA-U\\ch-0"

\* Names of the entries of the directory of the builds.
BuildNames == <<"1.2", "1.10", "2.0", "1.9", "10.0">>

\* What an entry of that directory is: nothing, a build (a directory with
\* bin/exe_name), a directory without bin/exe_name, a regular file, or a
\* directory whose bin/exe_name is a directory.
EntryKinds == {"absent", "build", "empty", "file", "exedir"}

\* The orders in which a directory may list the entries S.
RECURSIVE ListingOrders(_)
ListingOrders(S) ==
    IF S = {} THEN {<<>>}
    ELSE UNION {{<<first>> \o rest : rest \in ListingOrders(S \ {first})} : first \in S}

InitToolbox ==
    /\ platform = "windows"
    /\ \E local \in {None, Some(LocalAppData)} :
          env = [NoEnv EXCEPT !["LOCALAPPDATA"] = local]
    /\ \E has_base \in BOOLEAN :
        \E kind \in IF has_base
                    THEN [{BuildNames[i] : i \in 1..MaxBuildDirs} -> EntryKinds]
                    ELSE [{BuildNames[i] : i \in 1..MaxBuildDirs} -> {"absent"}] :
          LET base == IdeaBuilds
              names == DOMAIN kind
              exe(n) == base \o "\\" \o n \o "\\bin\\idea64.exe"
          IN  IF ~has_base
              THEN files = {} /\ dirs = {} /\ readdir = <<>>
              ELSE /\ files = {exe(n) : n \in {m \in names : kind[m] = "build"}}
                               \cup {base \o "\\" \o n : n \in {m \in names : kind[m] = "file"}}
                   /\ dirs = {base}
                        \cup {base \o "\\" \o n :
                                 n \in {m \in names : kind[m] \in {"build", "empty", "exedir"}}}
                        \cup {base \o "\\" \o n \o "\\bin" :
                                 n \in {m \in names : kind[m] \in {"build", "exedir"}}}
                        \cup {exe(n) : n \in {m \in names : kind[m] = "exedir"}}
                   /\ \E order \in ListingOrders({n \in names : kind[n] # "absent"}) :
                         readdir = [dir \in {base} |-> order]
    /\ call = NoCall
    /\ spawned = <<>>
    /\ ret = None

\* The one lookup: find_jetbrains_toolbox_exe(product_code, exe_name).
CallFindJetbrainsToolboxExe ==
    /\ call = NoCall
    /\ \E product_code \in {"IDEA-U", "IDEA-C"}, exe_name \in {"idea64.exe"} :
          /\ call' = [fn |-> "find_jetbrains_toolbox_exe",
                      product_code |-> product_code, exe_name |-> exe_name]
          /\ ret' = find_jetbrains_toolbox_exe(product_code, exe_name)
    /\ UNCHANGED <<platform, env, files, dirs, readdir, spawned>>

NextToolbox == CallFindJetbrainsToolboxExe

SpecToolbox == InitToolbox /\ [][NextToolbox]_vars

\* ------------------------------------------------------------ SpecDiscover

\* The number of discoveries a behaviour makes at most.
MaxCalls == 2

\* The application bundles discovery probes on macOS.
MacosApps == {"Visual Studio Code", "Visual Studio Code - Insiders", "IntelliJ IDEA", "IntelliJ IDEA CE", "PyCharm", "PyCharm CE", "WebStorm", "GoLand", "Rider", "CLion", "PhpStorm", "DataGrip"}

\* The commands discovery looks up on PATH on Linux.
LinuxCommands == {"code", "code-insiders", "idea", "webstorm", "pycharm", "goland", "rider", "clion", "phpstorm", "datagrip"}

ProgramFiles == "C:\\Program Files"

\* The files a Windows host may have outside the JetBrains trees.
WindowsPlainFiles == {ProgramFiles \o "\\Microsoft VS Code\\Code.exe", "C:\\bin\\code.cmd", LocalAppData \o "\\Programs\\Microsoft VS Code Insiders\\Code - Insiders.exe"}

\* An installation inside a directory that discovery lists: the directory
\* listed, the entry of it, and the executable under the entry's bin.
Installation(parent, entry, exe_name) ==
    [parent |-> parent, entry |-> entry, exe_name |-> exe_name]

ToolboxInstall(product_code, exe_name) ==
    Installation(LocalAppData \o "\\JetBrains\\Toolbox\\apps\\" \o product_code \o "\\ch-0", "231.1", exe_name)

RootInstall(entry, exe_name) ==
    Installation(ProgramFiles \o "\\JetBrains", entry, exe_name)

\* The JetBrains installations a Windows host may have.
WindowsInstalls ==
    { ToolboxInstall("IDEA-U", "idea64.exe"),
      ToolboxInstall("IDEA-C", "idea64.exe"),
      RootInstall("IntelliJ IDEA 2023.1", "idea64.exe"),
      RootInstall("IntelliJ IDEA Community Edition 2023.1", "idea64.exe"),
      ToolboxInstall("PyCharm-C", "pycharm64.exe"),
      RootInstall("PyCharm 2023.1", "pycharm64.exe"),
      ToolboxInstall("WebStorm", "webstorm64.exe"),
      RootInstall("GoLand 2023.1", "goland64.exe"),
      RootInstall("DataGrip 2023.1", "datagrip64.exe") }

\* The entries of the directories listed, in one order a listing may have.
ListedEntries == <<"231.1", "DataGrip 2023.1", "GoLand 2023.1", "IntelliJ IDEA 2023.1", "IntelliJ IDEA Community Edition 2023.1", "PyCharm 2023.1">>

Reverse(seq) == [i \in 1..Len(seq) |-> seq[Len(seq) + 1 - i]]

\* The listing of the entries present, in the order of ListedEntries or in
\* the opposite order.
Listing(present, reversed) ==
    LET InPresent(e) == e \in present
        listed == SelectSeq(ListedEntries, InPresent)
    IN  IF reversed THEN Reverse(listed) ELSE listed

InstallDir(u) == u.parent \o "\\" \o u.entry

InitDiscover ==
    /\ platform \in {"macos", "windows", "linux"}
    /\ IF platform = "macos"
       THEN /\ env = NoEnv
            /\ files = {}
            /\ dirs \in SUBSET {"/Applications/" \o app \o ".app" : app \in MacosApps}
            /\ readdir = <<>>
       ELSE IF platform = "linux"
       THEN /\ env = [NoEnv EXCEPT !["PATH"] = Some("/usr/local/bin:/usr/bin")]
            /\ files \in SUBSET {"/usr/bin/" \o command : command \in LinuxCommands}
            /\ dirs = {"/usr/local/bin", "/usr/bin"}
            /\ readdir = <<>>
       ELSE /\ env = [NoEnv EXCEPT !["PATH"] = Some("C:\\bin"),
                                   !["ProgramFiles"] = Some(ProgramFiles),
                                   !["LOCALAPPDATA"] = Some(LocalAppData)]
            /\ \E plain \in SUBSET WindowsPlainFiles, installs \in SUBSET WindowsInstalls :
                  /\ files = plain \cup {InstallDir(u) \o "\\bin\\" \o u.exe_name : u \in installs}
                  /\ dirs = {u.parent : u \in installs}
                            \cup {InstallDir(u) : u \in installs}
                            \cup {InstallDir(u) \o "\\bin" : u \in installs}
                  /\ \E reversed \in BOOLEAN :
                        readdir = [dir \in {u.parent : u \in installs} |->
                                     Listing({u.entry : u \in {v \in installs : v.parent = dir}},
                                             reversed)]
    /\ call = NoCall
    /\ spawned = <<>>
    /\ ret = None

\* One discovery: list_dev_tool_presets(). The file system and the
\* environment stay as they are.
CallListDevToolPresets ==
    /\ call = NoCall \/ (call.fn = "list_dev_tool_presets" /\ call.n < MaxCalls)
    /\ call' = [fn |-> "list_dev_tool_presets",
                n |-> IF call = NoCall THEN 1 ELSE call.n + 1]
    /\ ret' = Some(list_dev_tool_presets)
    /\ UNCHANGED <<platform, env, files, dirs, readdir, spawned>>

NextDiscover == CallListDevToolPresets

SpecDiscover == InitDiscover /\ [][NextDiscover]_vars

\* ------------------------------------------------------------ C8, C9

IsListCall == call.fn = "list_dev_tool_presets"

\* The catalog of the platform, in the order of its declaration.
C8_Catalog ==
    IF platform = "linux"
    THEN <<"vscode", "vscode-insiders", "intellij-idea", "webstorm", "pycharm", "goland", "rider", "clion", "phpstorm", "datagrip">>
    ELSE <<"vscode", "vscode-insiders", "intellij-idea", "pycharm", "webstorm", "goland", "rider", "clion", "phpstorm", "datagrip">>

C8_Position(id) == CHOOSE i \in 1..Len(C8_Catalog) : C8_Catalog[i] = id

\* The preset returned for id (there is one).
C8_Preset(id) == ret.value[CHOOSE i \in 1..Len(ret.value) : ret.value[i].id = id]

C8_Ids == {ret.value[i].id : i \in 1..Len(ret.value)}

\* The candidates of the two-candidate entries, first to last, each with
\* what tells it is installed and what the preset of it carries.
C8_MacCandidates(id) ==
    IF id = "intellij-idea" THEN <<"IntelliJ IDEA", "IntelliJ IDEA CE">>
    ELSE <<"PyCharm", "PyCharm CE">>

C8_WinToolbox(code, exe_name) ==
    LocalAppData \o "\\JetBrains\\Toolbox\\apps\\" \o code \o "\\ch-0\\231.1\\bin\\" \o exe_name

C8_InRoot(path, exe_name) ==
    /\ path \in files
    /\ Len(path) > Len(ProgramFiles \o "\\JetBrains\\")
    /\ SubSeq(path, 1, Len(ProgramFiles \o "\\JetBrains\\")) = ProgramFiles \o "\\JetBrains\\"
    /\ SubSeq(path, Len(path) - Len(exe_name) + 1, Len(path)) = exe_name

\* C8: for every set of installed tools, on each platform, the ids of the
\* presets list_dev_tool_presets returns are strictly increasing in the order
\* of the platform's catalog (catalog order, no id twice); an entry with two
\* candidates yields the preset of its first installed candidate only: on
\* macOS the full edition if its bundle exists, else the community edition; on
\* Windows the first toolbox code if installed, else the second, else an
\* installation under the install root.
C8_CatalogOrder ==
    IsListCall =>
        /\ \A i, j \in 1..Len(ret.value) :
              i < j => C8_Position(ret.value[i].id) < C8_Position(ret.value[j].id)
        /\ C8_Ids \subseteq {C8_Catalog[i] : i \in 1..Len(C8_Catalog)}
        /\ MacOS =>
              \A id \in {"intellij-idea", "pycharm"} :
                 LET full == "/Applications/" \o C8_MacCandidates(id)[1] \o ".app"
                     community == "/Applications/" \o C8_MacCandidates(id)[2] \o ".app"
                 IN  /\ id \in C8_Ids <=> (full \in dirs \/ community \in dirs)
                     /\ id \in C8_Ids =>
                           C8_Preset(id).arguments[2] =
                              IF full \in dirs THEN C8_MacCandidates(id)[1]
                              ELSE C8_MacCandidates(id)[2]
        /\ Windows =>
              LET first == C8_WinToolbox("IDEA-U", "idea64.exe")
                  second == C8_WinToolbox("IDEA-C", "idea64.exe")
              IN  /\ first \in files => C8_Preset("intellij-idea").command_path = first
                  /\ first \notin files /\ second \in files =>
                        C8_Preset("intellij-idea").command_path = second
                  /\ first \notin files /\ second \notin files =>
                        ("intellij-idea" \in C8_Ids <=>
                            \E path \in files : C8_InRoot(path, "idea64.exe"))
                  /\ first \notin files /\ second \notin files /\ "intellij-idea" \in C8_Ids =>
                        C8_InRoot(C8_Preset("intellij-idea").command_path, "idea64.exe")

\* C8 happens: on macOS both editions of IntelliJ IDEA and of PyCharm are
\* installed among other tools, and one preset each is returned.
C8_Witness ==
    /\ IsListCall
    /\ MacOS
    /\ {"/Applications/IntelliJ IDEA.app", "/Applications/IntelliJ IDEA CE.app",
        "/Applications/PyCharm.app", "/Applications/PyCharm CE.app",
        "/Applications/Visual Studio Code.app", "/Applications/DataGrip.app"} \subseteq dirs
    /\ Len(ret.value) = 4
    /\ C8_Preset("intellij-idea").name = "IntelliJ IDEA"

IsBuildCall == call.fn = "build_command_arguments"

\* The entries of template t that hold the placeholder.
TokenEntries(t) == {i \in 1..Len(t) : Contains(t[i], PathToken)}

\* s cut at every placeholder: the pieces between the placeholders.
RECURSIVE PiecesOf(_)
PiecesOf(s) ==
    LET k == FindFrom(s, PathToken, 1)
    IN  IF k = 0 THEN <<s>>
        ELSE <<SubSeq(s, 1, k - 1)>> \o PiecesOf(SubSeq(s, k + Len(PathToken), Len(s)))

\* The pieces joined again with p between them.
RECURSIVE JoinWith(_, _)
JoinWith(pieces, p) ==
    IF Len(pieces) = 1 THEN pieces[1]
    ELSE pieces[1] \o p \o JoinWith(Tail(pieces), p)

\* C1: with exactly one entry holding {path} the result is the template with
\* the placeholder replaced by the path and nothing appended; with no entry
\* holding it the result is the template followed by the path; for an absent
\* template the result is [path]; the entries without a placeholder always
\* keep their place.
C1_BuildContract ==
    IsBuildCall =>
        LET p == call.path
            r == ret.value
        IN  IF ~call.arguments.is_some THEN r = <<p>>
            ELSE LET t == call.arguments.value
                 IN  /\ TokenEntries(t) = {} => r = Append(t, p)
                     /\ Cardinality(TokenEntries(t)) = 1 =>
                            /\ Len(r) = Len(t)
                            /\ \A i \in TokenEntries(t) : r[i] = JoinWith(PiecesOf(t[i]), p)
                     /\ Len(r) \in {Len(t), Len(t) + 1}
                     /\ \A i \in (1..Len(t)) \ TokenEntries(t) : r[i] = t[i]

C1_Witness ==
    /\ IsBuildCall
    /\ call.arguments.is_some
    /\ call.arguments.value = <<"--wait", "-g{path}:1">>
    /\ call.path = "/tmp/project"
    /\ ret.value = <<"--wait", "-g/tmp/project:1">>

\* Number of non-overlapping occurrences of pat in s.
RECURSIVE CountOcc(_, _)
CountOcc(s, pat) ==
    LET k == FindFrom(s, pat, 1)
    IN  IF k = 0 THEN 0
        ELSE 1 + CountOcc(SubSeq(s, k + Len(pat), Len(s)), pat)

RECURSIVE CountOccAll(_, _)
CountOccAll(strings, pat) ==
    IF strings = <<>> THEN 0
    ELSE CountOcc(Head(strings), pat) + CountOccAll(Tail(strings), pat)

TemplateEntries(arguments) == IF arguments.is_some THEN arguments.value ELSE <<>>

\* The first character of the path marks its copies when the template does
\* not use that character: the copies of the path in the result are then
\* counted by the marks.
Marked == IsBuildCall /\ CountOccAll(TemplateEntries(call.arguments), Char(call.path, 1)) = 0

Inserted == CountOccAll(ret.value, Char(call.path, 1)) \div CountOcc(call.path, Char(call.path, 1))

\* C2 as claimed: whatever the template, the path is inserted exactly once.
C2_ExactlyOnce == Marked => Inserted = 1

\* C2 as amended: the path is never dropped; it is inserted once for every
\* occurrence of {path} in the template, and exactly once (by the trailing
\* append) when there is none.
C2_OncePerPlaceholder ==
    /\ IsBuildCall => \E i \in 1..Len(ret.value) : Contains(ret.value[i], call.path)
    /\ Marked =>
          LET n == CountOccAll(TemplateEntries(call.arguments), PathToken)
          IN  Inserted = IF n = 0 THEN 1 ELSE n

C2_Witness ==
    /\ Marked
    /\ call.arguments.is_some
    /\ call.arguments.value = <<"{path}{path}", "{path}">>
    /\ Inserted = 3

\* ------------------------------------------------------------ C3, C4

IsRunCall == call.fn = "run_command_with_shell_support"

\* The process spawned last in the call.
LastSpawn == spawned[Len(spawned)]

\* C3: the launch returns Ok exactly when the process spawned last exited
\* with status 0, Err(prefix + " " + OS error text) exactly when that spawn
\* could not start, and Err(failure message) exactly when it started and
\* exited non-zero; the result is never anything else.
C3_RunResult ==
    IsRunCall =>
        LET r == ret.value
            o == LastSpawn.outcome
            spawn_text == call.spawn_error_prefix \o " " \o OsErrorText(o.error)
        IN  /\ Len(spawned) >= 1
            /\ r.is_ok <=> (o.started /\ o.code = 0)
            /\ (~r.is_ok /\ r.error = spawn_text) <=> ~o.started
            /\ (~r.is_ok /\ r.error = call.failure_message) <=> (o.started /\ o.code # 0)
            /\ \A i \in 1..(Len(spawned) - 1) : ~spawned[i].outcome.started

C3_Witness ==
    /\ IsRunCall
    /\ Len(spawned) = 2
    /\ LastSpawn.outcome.started
    /\ LastSpawn.outcome.code # 0
    /\ ret.value = Err("open editor failed")

\* The sibling extensions of the claim, in its order.
C4_Order == <<"cmd", "bat", "ps1", "exe", "com">>

\* How the claim says a sibling with extension e is invoked.
C4_Program(e, sibling) ==
    IF e \in {"cmd", "bat"} THEN "cmd.exe"
    ELSE IF e = "ps1" THEN "powershell.exe"
    ELSE sibling

C4_Args(e, sibling, arguments) ==
    IF e \in {"cmd", "bat"} THEN <<"/C", sibling>> \o arguments
    ELSE IF e = "ps1"
         THEN <<"-NoProfile", "-ExecutionPolicy", "Bypass", "-File", sibling>> \o arguments
    ELSE arguments

\* The case of C4: on Windows, an extension-less command path whose direct
\* spawn failed with a not-found class error while a sibling file exists.
C4_Case ==
    /\ IsRunCall
    /\ Windows
    /\ ~Contains(FileName(call.command_path), ".")
    /\ spawned[1].program = call.command_path
    /\ ~spawned[1].outcome.started
    /\ spawned[1].outcome.error \in {Some(2), Some(3), Some(193), Some(216)}
    /\ \E k \in 1..Len(C4_Order) : (call.command_path \o "." \o C4_Order[k]) \in files

\* C4: in that case the second spawn is the first existing sibling in the
\* order .cmd, .bat, .ps1, .exe, .com, invoked by the kind of its extension
\* with the original arguments, and the launch succeeds iff it exits 0.
C4_FallbackResult ==
    C4_Case =>
        LET k == CHOOSE k \in 1..Len(C4_Order) :
                     /\ (call.command_path \o "." \o C4_Order[k]) \in files
                     /\ \A j \in 1..(k - 1) :
                            (call.command_path \o "." \o C4_Order[j]) \notin files
            e == C4_Order[k]
            sibling == call.command_path \o "." \o e
        IN  /\ Len(spawned) = 2
            /\ spawned[1].args = call.arguments
            /\ spawned[2].program = C4_Program(e, sibling)
            /\ spawned[2].args = C4_Args(e, sibling, call.arguments)
            /\ ret.value.is_ok <=> (spawned[2].outcome.started /\ spawned[2].outcome.code = 0)

C4_Witness ==
    /\ C4_Case
    /\ call.command_path = "tool"
    /\ "tool.cmd" \in dirs
    /\ files = {"tool.ps1", "tool.exe"}
    /\ spawned[2].program = "powershell.exe"
    /\ ret.value.is_ok

\* ------------------------------------------------------------ C5

IsActionCall == call.fn \in {"open_in_finder", "open_in_terminal", "open_in_editor"}

ExitedNonZero(o) == o.started /\ o.code # 0
ExitedZero(o) == o.started /\ o.code = 0

\* C5 as claimed: in every action, a process that ran and exited non-zero
\* is the last one spawned and the call returns Failure.
C5_NoSpawnAfterNonZeroExit ==
    IsActionCall =>
        \A i \in 1..Len(spawned) :
            ExitedNonZero(spawned[i].outcome) =>
                i = Len(spawned) /\ ~ret.value.is_ok

\* The /usr/bin/open attempts open_in_editor makes before the command
\* override: one per designation supplied, on macOS only.
Designations ==
    IF call.fn = "open_in_editor" /\ MacOS
    THEN (IF call.params.app_name.is_some THEN 1 ELSE 0)
         + (IF call.params.bundle_id.is_some THEN 1 ELSE 0)
    ELSE 0

\* C5 as amended: a process that exited non-zero is followed by another
\* spawn only in open_windows_terminal (after wt.exe) and in open_in_editor
\* on macOS (after open -a / open -b); everywhere else, the launcher
\* included, it is the last spawn; and a call whose last process exited
\* non-zero returns Failure.
C5_NonZeroExitRetriedOnlyByWtAndOpen ==
    IsActionCall =>
        \A i \in 1..Len(spawned) :
            ExitedNonZero(spawned[i].outcome) =>
                /\ i < Len(spawned) =>
                       \/ /\ call.fn = "open_in_terminal"
                          /\ Windows
                          /\ ~call.params.command_path.is_some
                          /\ i = 1
                          /\ spawned[i].program = "wt.exe"
                       \/ /\ call.fn = "open_in_editor"
                          /\ MacOS
                          /\ i <= Designations
                          /\ spawned[i].program = "/usr/bin/open"
                          /\ spawned[i].args[1] \in {"-a", "-b"}
                /\ i = Len(spawned) => ~ret.value.is_ok

C5_Witness ==
    /\ call.fn = "open_in_editor"
    /\ Windows
    /\ call.params.command_path = Some("tool")
    /\ "tool.cmd" \in files
    /\ Len(spawned) = 2
    /\ spawned[2].program = "cmd.exe"
    /\ ExitedNonZero(spawned[2].outcome)
    /\ ret.value = Err("open editor failed")

\* ------------------------------------------------------------ C10

IsEditorCall == call.fn = "open_in_editor"

HasName == MacOS /\ call.params.app_name.is_some
HasBundle == MacOS /\ call.params.bundle_id.is_some
HasCommand == call.params.command_path.is_some

AnyFailure(o) == ~ExitedZero(o)

\* Which outcome of an attempt lets the next one be made: only a non-zero
\* exit (strict), or any failure.
Continues(strict, o) == IF strict THEN ExitedNonZero(o) ELSE AnyFailure(o)

\* The attempts of the chain: each attempt is made exactly when it is
\* supplied and every earlier attempt made satisfies Continues; the call
\* returns Ok exactly when the last process spawned exited 0.
ChainHolds(strict) ==
    LET n1 == IF HasName THEN 1 ELSE 0
        bundle_due == HasBundle /\ (HasName => Continues(strict, spawned[1].outcome))
        n2 == IF bundle_due THEN 1 ELSE 0
        command_due ==
            /\ HasCommand
            /\ HasName => Continues(strict, spawned[1].outcome)
            /\ HasBundle => bundle_due /\ Continues(strict, spawned[n1 + 1].outcome)
        rest == Len(spawned) - n1 - n2
    IN  /\ HasName =>
              /\ Len(spawned) >= 1
              /\ spawned[1].program = "/usr/bin/open"
              /\ spawned[1].args = <<"-a", call.params.app_name.value, call.params.path>>
        /\ bundle_due =>
              /\ Len(spawned) >= n1 + 1
              /\ spawned[n1 + 1].program = "/usr/bin/open"
              /\ spawned[n1 + 1].args =
                     <<"-b", call.params.bundle_id.value, call.params.path>>
        /\ command_due =>
              /\ rest \in (IF Windows THEN {1, 2} ELSE {1})
              /\ spawned[n1 + n2 + 1].program = call.params.command_path.value
              /\ spawned[n1 + n2 + 1].args =
                     build_command_arguments(call.params.arguments, call.params.path)
        /\ ~command_due => rest = 0
        /\ \A i \in 1..(Len(spawned) - 1) : ~ExitedZero(spawned[i].outcome)
        /\ ret.value.is_ok <=> (Len(spawned) > 0 /\ ExitedZero(LastSpawn.outcome))

CouldNotOpen == ret.value = Err("could not open editor")

\* C10 as claimed: an attempt is made when every earlier one failed in any
\* way, and the could-not-open failure is returned exactly when no attempt
\* succeeded and no command override was supplied.
C10_AnyFailureFallsThrough ==
    IsEditorCall =>
        /\ ChainHolds(FALSE)
        /\ CouldNotOpen <=>
              /\ ~HasCommand
              /\ \A i \in 1..Len(spawned) : ~ExitedZero(spawned[i].outcome)

\* C10 as amended: an attempt is made when every earlier one ran and exited
\* non-zero; an /usr/bin/open that could not start ends the call with the
\* spawn error; the could-not-open failure is returned exactly when no
\* command override was supplied and every attempt made ran and exited
\* non-zero.
C10_NonZeroExitFallsThrough ==
    IsEditorCall =>
        /\ ChainHolds(TRUE)
        /\ \A i \in 1..Designations :
              (i <= Len(spawned) /\ ~spawned[i].outcome.started) =>
                  /\ i = Len(spawned)
                  /\ ret.value = Err("open editor failed:" \o " "
                                     \o OsErrorText(spawned[i].outcome.error))
        /\ CouldNotOpen <=>
              /\ ~HasCommand
              /\ \A i \in 1..Len(spawned) : ExitedNonZero(spawned[i].outcome)
        /\ ~MacOS => (Len(spawned) = 0 <=> ~HasCommand)

C10_Witness ==
    /\ IsEditorCall
    /\ MacOS
    /\ HasName /\ HasBundle /\ HasCommand
    /\ Len(spawned) = 3
    /\ ExitedNonZero(spawned[1].outcome)
    /\ ExitedNonZero(spawned[2].outcome)
    /\ spawned[3].program = "subl"
    /\ spawned[3].args = <<"--wait", "/tmp/project">>
    /\ ret.value.is_ok

\* ------------------------------------------------------------ C6

IsFindCall == call.fn = "find_in_path"

\* The directories PATH lists, in its order: the sequence PATH was made of.
C6_Search ==
    IF ~env["PATH"].is_some THEN <<>>
    ELSE CHOOSE search \in SeqsUpTo(SearchDirs, MaxPathDirs) :
             JoinPaths(search) = env["PATH"].value

\* The names tried in one directory, in the order of the claim.
C6_Names ==
    IF Windows /\ ~Contains(call.command, ".")
    THEN <<call.command, call.command \o ".exe", call.command \o ".cmd",
           call.command \o ".bat">>
    ELSE <<call.command>>

C6_Candidate(i, j) ==
    C6_Search[i] \o (IF Windows THEN "\\" ELSE "/") \o C6_Names[j]

\* The places (directory, name) where a regular file is.
C6_Hits ==
    {place \in (1..Len(C6_Search)) \X (1..Len(C6_Names)) :
        C6_Candidate(place[1], place[2]) \in files}

\* C6: find_in_path returns the first regular file in the order PATH
\* directory first, then exact name, .exe, .cmd, .bat (the extensions on
\* Windows only and only for a command without extension); nothing iff
\* there is none; never a directory.
C6_FirstInPathOrder ==
    IsFindCall =>
        /\ ret.is_some <=> C6_Hits # {}
        /\ ret.is_some =>
              /\ ret.value \notin dirs
              /\ \E place \in C6_Hits :
                    /\ ret.value = C6_Candidate(place[1], place[2])
                    /\ \A other \in C6_Hits :
                          \/ place[1] < other[1]
                          \/ place[1] = other[1] /\ place[2] <= other[2]

C6_Witness ==
    /\ IsFindCall
    /\ Windows
    /\ call.command = "code"
    /\ env["PATH"] = Some("C:\\a;D:\\b")
    /\ "C:\\a\\code" \in dirs
    /\ {"C:\\a\\code.cmd", "C:\\a\\code.bat", "D:\\b\\code", "D:\\b\\code.exe"} \subseteq files
    /\ "C:\\a\\code.exe" \notin files
    /\ ret = Some("C:\\a\\code.cmd")

\* ------------------------------------------------------------ C7

IsToolboxCall == call.fn = "find_jetbrains_toolbox_exe"

\* The entry names in ascending lexicographic order.
C7_Ascending == <<"1.10", "1.2", "1.9", "10.0", "2.0">>

C7_Rank(name) == CHOOSE i \in 1..Len(C7_Ascending) : C7_Ascending[i] = name

C7_Base ==
    env["LOCALAPPDATA"].value \o "\\JetBrains\\Toolbox\\apps\\" \o call.product_code
        \o "\\ch-0"

\* The subdirectories that hold bin/exe_name as a regular file.
C7_Qualified ==
    IF ~env["LOCALAPPDATA"].is_some \/ C7_Base \notin dirs THEN {}
    ELSE {i \in 1..Len(C7_Ascending) :
            /\ (C7_Base \o "\\" \o C7_Ascending[i]) \in dirs
            /\ (C7_Base \o "\\" \o C7_Ascending[i] \o "\\bin\\" \o call.exe_name) \in files}

\* C7: find_jetbrains_toolbox_exe returns bin/exe_name of the subdirectory
\* with the lexicographically greatest name among those that hold
\* bin/exe_name as a regular file, whatever the listing order, and nothing
\* iff no subdirectory qualifies or the root or LOCALAPPDATA is missing.
C7_GreatestQualifiedBuild ==
    IsToolboxCall =>
        /\ ret.is_some <=> C7_Qualified # {}
        /\ ret.is_some =>
              \E i \in C7_Qualified :
                  /\ \A j \in C7_Qualified : j <= i
                  /\ ret.value = C7_Base \o "\\" \o C7_Ascending[i]
                                     \o "\\bin\\" \o call.exe_name

C7_Witness ==
    /\ IsToolboxCall
    /\ call.product_code = "IDEA-U"
    /\ env["LOCALAPPDATA"].is_some
    /\ C7_Base \in DOMAIN readdir
    /\ readdir[C7_Base] = <<"1.2", "2.0", "1.10">>
    /\ C7_Qualified = {1, 2}
    /\ (C7_Base \o "\\2.0") \in dirs
    /\ ret = Some(C7_Base \o "\\1.2\\bin\\idea64.exe")

\* ------------------------------------------------------------ C11

IsTerminalCall == call.fn = "open_in_terminal"

\* The arguments the override is to get: the template with the path in the
\* place of every placeholder, the path appended when there is none.
C11_Arguments ==
    LET p == call.params.path
        t == TemplateEntries(call.params.arguments)
        filled == [i \in 1..Len(t) |-> JoinWith(PiecesOf(t[i]), p)]
    IN  IF TokenEntries(t) = {} THEN Append(t, p) ELSE filled

\* What spawn s runs and with which arguments, seen through the interpreter
\* the launcher puts in front of a script.
C11_Launched(s) ==
    IF s.program = "cmd.exe" /\ Len(s.args) >= 2 /\ s.args[1] = "/C"
    THEN [executable |-> s.args[2], arguments |-> SubSeq(s.args, 3, Len(s.args))]
    ELSE IF s.program = "powershell.exe" /\ Len(s.args) >= 5 /\ s.args[4] = "-File"
    THEN [executable |-> s.args[5], arguments |-> SubSeq(s.args, 6, Len(s.args))]
    ELSE [executable |-> s.program, arguments |-> s.args]

\* The programs that are a platform's default way to open a terminal or a
\* path.
C11_DefaultPrograms == {"wt.exe", "/usr/bin/osascript", "/usr/bin/open", "explorer", "xdg-open"}

\* s cut at every double quote: the pieces between the quotes.
RECURSIVE PiecesQuote(_)
PiecesQuote(s) ==
    LET k == FindFrom(s, "\"", 1)
    IN  IF k = 0 THEN <<s>>
        ELSE <<SubSeq(s, 1, k - 1)>> \o PiecesQuote(SubSeq(s, k + 1, Len(s)))

\* The command line of the legacy shell host pointed at the path.
C11_SetLocation ==
    "Set-Location -LiteralPath \"" \o JoinWith(PiecesQuote(call.params.path), "\"\"") \o "\""

\* C11: open_in_terminal with an override command launches the override
\* only: every spawn runs the override (or its sibling script or executable
\* on Windows) with the arguments built from the template, at least one and
\* at most two spawns are made, none of them is a platform default terminal,
\* and the result is Success iff the last process exited 0, whatever the
\* outcome.  Without an override on Windows, wt.exe -d <path> is spawned
\* first, powershell.exe is spawned exactly when wt.exe could not start or
\* exited non-zero, and the result is then that of powershell.exe.
C11_TerminalStrategy ==
    IsTerminalCall =>
        /\ call.params.command_path.is_some =>
              /\ Len(spawned) \in {1, 2}
              /\ \A i \in 1..Len(spawned) :
                    /\ C11_Launched(spawned[i]).arguments = C11_Arguments
                    /\ \/ C11_Launched(spawned[i]).executable = call.params.command_path.value
                       \/ /\ Windows
                          /\ i = 2
                          /\ \E e \in {"cmd", "bat", "ps1", "exe", "com"} :
                                C11_Launched(spawned[i]).executable
                                    = call.params.command_path.value \o "." \o e
                    /\ spawned[i].program \notin C11_DefaultPrograms
                    /\ ~(spawned[i].program = "powershell.exe" /\ spawned[i].args[1] = "-NoExit")
              /\ ret.value.is_ok <=> ExitedZero(spawned[Len(spawned)].outcome)
        /\ (~call.params.command_path.is_some /\ Windows) =>
              /\ Len(spawned) \in {1, 2}
              /\ spawned[1].program = "wt.exe"
              /\ spawned[1].args = <<"-d", call.params.path>>
              /\ Len(spawned) = 2 <=> ~ExitedZero(spawned[1].outcome)
              /\ Len(spawned) = 1 => ret.value = Ok(<<>>)
              /\ Len(spawned) = 2 =>
                    /\ spawned[2].program = "powershell.exe"
                    /\ spawned[2].args = <<"-NoExit", "-Command", C11_SetLocation>>
                    /\ ret.value.is_ok <=> ExitedZero(spawned[2].outcome)

\* C11 happens: on Windows the override "tool" could not start, its sibling
\* tool.cmd ran through cmd.exe and exited non-zero, and the call returned
\* Failure without any default terminal.
C11_Witness ==
    /\ IsTerminalCall
    /\ Windows
    /\ call.params.command_path = Some("tool")
    /\ call.params.arguments = Some(<<"-d", "{path}">>)
    /\ call.params.path = "/tmp/a\"b"
    /\ "tool.cmd" \in files
    /\ Len(spawned) = 2
    /\ spawned[1].outcome.error = Some(2)
    /\ spawned[2].program = "cmd.exe"
    /\ spawned[2].args = <<"/C", "tool.cmd", "-d", "/tmp/a\"b">>
    /\ ExitedNonZero(spawned[2].outcome)
    /\ ret.value = Err("terminal open failed")

\* ------------------------------------------------------------ C12

\* s cut at every dot: the pieces between the dots.
RECURSIVE PiecesDot(_)
PiecesDot(s) ==
    LET k == FindFrom(s, ".", 1)
    IN  IF k = 0 THEN <<s>>
        ELSE <<SubSeq(s, 1, k - 1)>> \o PiecesDot(SubSeq(s, k + 1, Len(s)))

\* The extension of the command path launched, in lower case, "" when its
\* file name has no dot.
C12_Extension ==
    LET name == FileName(call.command_path)
        pieces == PiecesDot(name)
    IN  IF Len(pieces) = 1 THEN "" ELSE ToAsciiLowercase(pieces[Len(pieces)])

\* The one spawn of a command path by the kind of its extension.
C12_OnlySpawn(program, args) ==
    /\ Len(spawned) = 1
    /\ spawned[1].program = program
    /\ spawned[1].args = args

\* C12: a launch makes one or two spawn attempts.  A second one is made only
\* on Windows, for a command path without extension whose direct spawn could
\* not start with raw OS error 2, 3, 193 or 216.  On Windows a path with the
\* extension cmd or bat (in any case) is spawned once through cmd.exe /C, one
\* with ps1 once through powershell.exe -File, one with any other extension
\* once directly; elsewhere every path is spawned once directly.
C12_FallbackTrigger ==
    IsRunCall =>
        /\ Len(spawned) \in {1, 2}
        /\ Len(spawned) = 2 =>
              /\ Windows
              /\ C12_Extension = ""
              /\ spawned[1].program = call.command_path
              /\ spawned[1].args = call.arguments
              /\ ~spawned[1].outcome.started
              /\ spawned[1].outcome.error \in {Some(2), Some(3), Some(193), Some(216)}
        /\ (Windows /\ C12_Extension \in {"cmd", "bat"}) =>
              C12_OnlySpawn("cmd.exe", <<"/C", call.command_path>> \o call.arguments)
        /\ (Windows /\ C12_Extension = "ps1") =>
              C12_OnlySpawn("powershell.exe",
                            <<"-NoProfile", "-ExecutionPolicy", "Bypass", "-File",
                              call.command_path>> \o call.arguments)
        /\ (Windows /\ C12_Extension \notin {"", "cmd", "bat", "ps1"}) =>
              C12_OnlySpawn(call.command_path, call.arguments)
        /\ ~Windows => C12_OnlySpawn(call.command_path, call.arguments)

\* C12 happens: on Windows the command path C:\v1.2\tool, whose directory
\* has a dot and whose file name has none, could not start with error 193
\* and its sibling C:\v1.2\tool.exe was spawned second.
C12_Witness ==
    /\ IsRunCall
    /\ Windows
    /\ call.command_path = "C:\\v1.2\\tool"
    /\ "C:\\v1.2\\tool.exe" \in files
    /\ Len(spawned) = 2
    /\ spawned[1].outcome.error = Some(193)
    /\ spawned[2].program = "C:\\v1.2\\tool.exe"
    /\ ExitedZero(spawned[2].outcome)
    /\ ret.value = Ok(<<>>)

=============================================================================
